---- MODULE Spec2Model ----
(***************************************************************************)
(* SUMAC clustering core (src/sumac.py): the parallel distance-matrix      *)
(* builder (make_distance_matrix / distance_matrix_worker), the guided     *)
(* cluster builder (make_guided_clusters / make_guided_clusters_worker)    *)
(* and the single-linkage cluster engine (make_clusters /                  *)
(* merge_closest_clusters).                                                *)
(*                                                                         *)
(* Conventions.                                                            *)
(*  - Python lists are TLA+ sequences, so every index is the source's      *)
(*    index plus one (row i of the code is row i+1 here).                  *)
(*  - A sequence key is identified with its position in seq_keys (the keys *)
(*    are distinct), so key == key2 is i = j.                              *)
(*  - Distances are BLAST e-values.  The code only compares them (<, >,    *)
(*    ==) and copies them; it never does arithmetic on them.  They are     *)
(*    therefore represented by integers in the same order:                 *)
(*        0.0 -> 0, 1e-12 -> 1, 1e-10 -> 2, 1e-8 -> 3,                     *)
(*        10.0 -> 10, 50.0 -> 50, 99 -> 99.                                *)
(*  - Each worker is a process; every access to a manager.list proxy       *)
(*    (dist_matrix, already_compared, clusters) is one atomic step, and    *)
(*    process-local computation is folded into the step before it.         *)
(***************************************************************************)
EXTENDS Integers, Sequences, FiniteSets, TLC

\* ------------------------------------------------------------------ bounds
NumKeys == 3
NumWorkers == 2
NumGuides == 2

\* --------------------------------------------------------- program constants
UNCOMPARED == 99
LENGTH_GATE_FAILED == 50
NO_HIT == 10

Workers == 1..NumWorkers
NoOwner == 0

\* The sequence lengths a record may have.
Lengths == {100, 160}
\* A comparator outcome is the list of hits of the parsed BLAST record, best
\* first: <<>> when blast_record.alignments is empty, <<e>> for a hit whose
\* first HSP has expect e.
NoAlignment == <<>>
MaxUnits == IF NumKeys > NumGuides THEN NumKeys ELSE NumGuides
SeqPairs == (1..MaxUnits) \X (1..MaxUnits)
\* The comparators a run may be given.  Each is deterministic (a function of
\* subject and query); BLAST is not symmetric in subject and query, so one of
\* them scores a pair differently in the two directions.
AllHit == [p \in SeqPairs |-> <<1>>]
NoHits == [p \in SeqPairs |-> NoAlignment]
Directed == [p \in SeqPairs |-> IF p[1] < p[2] THEN <<1>> ELSE <<3>>]
Comparators == {AllHit, NoHits, Directed}

VARIABLES
  path,             \* main: "allpairs" (no --guide) or "guided"
  seq_len,          \* all_seq_keys, as the list of len(gb[key].seq)
  guide_len,        \* the guide FASTA file, as the list of len(guide.seq)
  cmp,              \* the comparator: <<subject, query>> -> outcome
  dist_matrix,      \* manager.list of rows (all-pairs path)
  clusters,         \* manager.list of clusters (guided path)
  already_compared, \* manager.list of claimed keys / guide ids
  lock,             \* multiprocessing.Lock: NoOwner or the holder
  pc,               \* worker -> position in its worker function
  i,                \* worker -> index of the outer loop (key / guide)
  j,                \* worker -> index of the inner loop (key2 / key)
  compare_row,      \* worker -> local flag (compare_row / compare_guide)
  row,              \* worker -> local copy (row / temp_cluster)
  val,              \* worker -> distance about to be written
  main_pc,          \* the builder function: "spawning", "joining" or
                    \* "returned"
  files,            \* worker -> its temporary files that exist
  processed,        \* history: unit -> workers that entered "if compare_row"
  claimed,          \* history: <<unit, worker, lock held at the append>>
  distance_matrix,  \* merge_closest_clusters: the matrix
  threshold,        \* merge_closest_clusters: the e-value threshold
  ce_pc,            \* "idle", "scanning", "merging", "terminated",
                    \* "diverged" (endless loop) or "error" (IndexError)
  cluster1,         \* the pair the scan selected
  cluster2,
  min_distance,
  input_matrix,     \* history: the matrix make_clusters was given
  merge_log         \* history: the merges done, in order

\* The state of the builders' workers, and the state of the cluster engine
\* (clusters belongs to both: main passes either builder's or make_clusters'
\* list on).
workerVars == <<path, seq_len, guide_len, cmp, dist_matrix, already_compared,
                lock, pc, i, j, compare_row, row, val, main_pc, files,
                processed, claimed>>
ceVars == <<distance_matrix, threshold, ce_pc, cluster1, cluster2,
            min_distance, input_matrix, merge_log>>
vars == <<workerVars, clusters, ceVars>>

\* len(seq_keys), and the number of units of work of the running builder
NKeys == Len(seq_len)
Keys == 1..NKeys
NUnits == IF path = "guided" THEN Len(guide_len) ELSE NKeys
Units == 1..NUnits

LengthLists(n) == UNION {[1..m -> Lengths] : m \in 0..n}

\* length1 > length2 * (1 + L) or length1 < length2 * (1 - L), with L = 1/2
\* (main's default length_threshold = 0.5): both sides doubled.
GateFailsDM(length1, length2) ==
  (2 * length1 > 3 * length2) \/ (2 * length1 < length2)

\* A faulty gate: one of the two bounds is enough.
GatePassesEither(length1, length2) ==
  (2 * length1 < 3 * length2) \/ (2 * length1 > length2)

\* length1 < length2 * (1 + L) and length1 > length2 * (1 - L), L = 1/2
GatePassesGuided(length1, length2) ==
  (2 * length1 < 3 * length2) /\ (2 * length1 > length2)

\* row = [99] * len(seq_keys); dist_matrix.append(row) for every key
InitialMatrix(n) == [a \in 1..n |-> [b \in 1..n |-> UNCOMPARED]]

\* The lock and the manager lists are made; no worker has been started.
InitWorkers(n) ==
  /\ already_compared = <<>>
  /\ lock = NoOwner
  /\ pc = [w \in Workers |-> "unstarted"]
  /\ i = [w \in Workers |-> 1]
  /\ j = [w \in Workers |-> 1]
  /\ compare_row = [w \in Workers |-> FALSE]
  /\ row = [w \in Workers |-> <<>>]
  /\ val = [w \in Workers |-> 0]
  /\ main_pc = "spawning"
  /\ files = [w \in Workers |-> {}]
  /\ processed = [k \in 1..MaxUnits |-> {}]
  /\ claimed = {}

\* make_distance_matrix up to the start of the workers
InitAllPairs ==
  /\ path = "allpairs"
  /\ seq_len \in LengthLists(NumKeys)
  /\ guide_len = <<>>
  /\ cmp \in Comparators
  /\ dist_matrix = InitialMatrix(Len(seq_len))
  /\ clusters = <<>>
  /\ InitWorkers(Len(seq_len))

\* A faulty initialisation: one list more than there are guides.
OneClusterMore(n) == [g \in 1..(n + 1) |-> <<>>]

\* for guide in guide_sequences: clusters.append([])
EmptyClusters(n) == [g \in 1..n |-> <<>>]

\* make_guided_clusters up to the start of the workers
InitGuided ==
  /\ path = "guided"
  /\ seq_len \in LengthLists(NumKeys)
  /\ guide_len \in LengthLists(NumGuides)
  /\ cmp \in Comparators
  /\ dist_matrix = <<>>
  /\ clusters = EmptyClusters(Len(guide_len))
  /\ InitWorkers(Len(guide_len))

\* The cluster engine has not been started.
EngineIdle ==
  /\ distance_matrix = <<>>
  /\ threshold = 0
  /\ ce_pc = "idle"
  /\ cluster1 = 1
  /\ cluster2 = 1
  /\ min_distance = UNCOMPARED
  /\ input_matrix = <<>>
  /\ merge_log = <<>>

Init == (InitAllPairs \/ InitGuided) /\ EngineIdle

\* The first position of a started worker: the first lock entry of the outer
\* loop, or the clean-up when the loop has nothing to iterate over.
StartPc == IF NUnits = 0 THEN "cleanup" ELSE "lock"

\* for i in range(num_cores): p = Process(...); p.start()  (one iteration)
Spawn ==
  /\ main_pc = "spawning"
  /\ \E w \in Workers :
       /\ pc[w] = "unstarted"
       /\ \A v \in 1..(w - 1) : pc[v] # "unstarted"
       /\ pc' = [pc EXCEPT ![w] = StartPc]
       /\ main_pc' = IF w = NumWorkers THEN "joining" ELSE "spawning"
  /\ UNCHANGED <<ceVars, path, seq_len, guide_len, cmp, dist_matrix, clusters,
                 already_compared, lock, i, j, compare_row, row, val,
                 files, processed, claimed>>

\* A faulty membership test: nothing is ever found.
NeverInSeq(x, s) == FALSE

\* x in s
InSeq(x, s) == \E n \in 1..Len(s) : s[n] = x

\* A faulty entry: the with block is entered without waiting for the lock.
CanAcquireAlways(w) == TRUE

\* with lock: (entry)
CanAcquire(w) == lock = NoOwner

\* A faulty exit: the lock is still held when the row is processed.
LockKept(w) == lock

\* with lock: (exit)
LockAfterWith(w) == NoOwner

Acquire(w) ==
  /\ pc[w] = "lock"
  /\ CanAcquire(w)
  /\ lock' = w
  /\ compare_row' = [compare_row EXCEPT ![w] = FALSE]
  /\ pc' = [pc EXCEPT ![w] = "check"]
  /\ UNCHANGED <<ceVars, path, seq_len, guide_len, cmp, dist_matrix, clusters,
                 already_compared, i, j, row, val, main_pc, files, processed,
                 claimed>>

\* if key not in already_compared:   /   if guide.id not in already_compared:
CheckClaimed(w) ==
  /\ pc[w] = "check"
  /\ pc' = [pc EXCEPT ![w] = IF InSeq(i[w], already_compared)
                              THEN "release" ELSE "append"]
  /\ UNCHANGED <<ceVars, path, seq_len, guide_len, cmp, dist_matrix, clusters,
                 already_compared, lock, i, j, compare_row, row, val, main_pc,
                 files, processed, claimed>>

\* already_compared.append(key); compare_row = True
AppendClaim(w) ==
  /\ pc[w] = "append"
  /\ already_compared' = Append(already_compared, i[w])
  /\ compare_row' = [compare_row EXCEPT ![w] = TRUE]
  /\ claimed' = claimed \cup {<<i[w], w, lock = w>>}
  /\ pc' = [pc EXCEPT ![w] = "release"]
  /\ UNCHANGED <<ceVars, path, seq_len, guide_len, cmp, dist_matrix, clusters,
                 lock, i, j, row, val, main_pc, files, processed>>

\* The next key of "for key in seq_keys" ("for guide in guide_sequences"), or
\* the clean-up after the loop.
NextKeyPc(w) == IF i[w] = NUnits THEN "cleanup" ELSE "lock"
NextKeyI(w) == IF i[w] = NUnits THEN i[w] ELSE i[w] + 1

\* Where "if compare_row:" / "if compare_guide:" leads when the flag is set.
\* The guided worker's inner loop is empty when there is no candidate key.
RowStartPc(w) ==
  IF path = "allpairs" THEN "cell"
  ELSE IF NKeys = 0 THEN NextKeyPc(w) ELSE "cand"
RowStartI(w) ==
  IF path = "guided" /\ NKeys = 0 THEN NextKeyI(w) ELSE i[w]

\* end of the with block, then "if compare_row:"
Release(w) ==
  /\ pc[w] = "release"
  /\ lock' = LockAfterWith(w)
  /\ IF compare_row[w]
       THEN /\ pc' = [pc EXCEPT ![w] = RowStartPc(w)]
            /\ j' = [j EXCEPT ![w] = 1]
            /\ i' = [i EXCEPT ![w] = RowStartI(w)]
            /\ processed' = [processed EXCEPT ![i[w]] = @ \cup {w}]
            /\ files' = [files EXCEPT ![w] = @ \cup {"subject"}]
       ELSE /\ pc' = [pc EXCEPT ![w] = NextKeyPc(w)]
            /\ i' = [i EXCEPT ![w] = NextKeyI(w)]
            /\ UNCHANGED <<j, processed, files>>
  /\ compare_row' = [compare_row EXCEPT ![w] = FALSE]
  /\ UNCHANGED <<ceVars, path, seq_len, guide_len, cmp, dist_matrix, clusters,
                 already_compared, row, val, main_pc, claimed>>

\* j += 1, and at the end of the row i += 1
NextCellPc(w) == IF j[w] = NKeys THEN NextKeyPc(w) ELSE "cell"
NextCellJ(w) == IF j[w] = NKeys THEN 1 ELSE j[w] + 1
NextCellI(w) == IF j[w] = NKeys THEN NextKeyI(w) ELSE i[w]

\* The distance the parsed BLAST record of comparator(subject, query) gives:
\* hsps[0].expect of the first alignment, or 10.0 without alignments.
BlastValue(subject, query) ==
  IF cmp[<<subject, query>>] = NoAlignment
    THEN NO_HIT ELSE cmp[<<subject, query>>][1]

\* if dist_matrix[i][j] == 99: ... (the read, and the local branching on it)
ReadCell(w) ==
  /\ pc[w] = "cell"
  /\ IF dist_matrix[i[w]][j[w]] # UNCOMPARED
       THEN /\ pc' = [pc EXCEPT ![w] = NextCellPc(w)]
            /\ j' = [j EXCEPT ![w] = NextCellJ(w)]
            /\ i' = [i EXCEPT ![w] = NextCellI(w)]
            /\ UNCHANGED <<val, files>>
       ELSE IF i[w] = j[w]
         THEN /\ pc' = [pc EXCEPT ![w] = "diagR"]
              /\ val' = [val EXCEPT ![w] = 0]
              /\ UNCHANGED <<i, j, files>>
         ELSE IF GateFailsDM(seq_len[i[w]], seq_len[j[w]])
           THEN /\ pc' = [pc EXCEPT ![w] = "r1"]
                /\ val' = [val EXCEPT ![w] = LENGTH_GATE_FAILED]
                /\ UNCHANGED <<i, j, files>>
           ELSE /\ pc' = [pc EXCEPT ![w] = "blast"]
                /\ files' = [files EXCEPT ![w] = @ \cup {"query"}]
                /\ UNCHANGED <<i, j, val>>
  /\ UNCHANGED <<ceVars, path, seq_len, guide_len, cmp, dist_matrix, clusters,
                 already_compared, lock, compare_row, row, main_pc, processed,
                 claimed>>

\* row = dist_matrix[i]  (diagonal)
DiagRead(w) ==
  /\ pc[w] = "diagR"
  /\ row' = [row EXCEPT ![w] = dist_matrix[i[w]]]
  /\ pc' = [pc EXCEPT ![w] = "diagW"]
  /\ UNCHANGED <<ceVars, path, seq_len, guide_len, cmp, dist_matrix, clusters,
                 already_compared, lock, i, j, compare_row, val, main_pc,
                 files, processed, claimed>>

\* row[j] = 0.0; dist_matrix[i] = row
DiagWrite(w) ==
  /\ pc[w] = "diagW"
  /\ dist_matrix' = [dist_matrix EXCEPT ![i[w]] = [row[w] EXCEPT ![j[w]] = 0]]
  /\ row' = [row EXCEPT ![w] = <<>>]
  /\ pc' = [pc EXCEPT ![w] = NextCellPc(w)]
  /\ j' = [j EXCEPT ![w] = NextCellJ(w)]
  /\ i' = [i EXCEPT ![w] = NextCellI(w)]
  /\ UNCHANGED <<ceVars, path, seq_len, guide_len, cmp, clusters,
                 already_compared, lock, compare_row, val, main_pc, files,
                 processed, claimed>>

\* stdout, stderr = blastn_cmd() returns; the parsed record decides the value
Blast(w) ==
  /\ pc[w] = "blast"
  /\ val' = [val EXCEPT ![w] = BlastValue(i[w], j[w])]
  /\ pc' = [pc EXCEPT ![w] = "r1"]
  /\ files' = [files EXCEPT ![w] = @ \cup {"blast"}]
  /\ UNCHANGED <<ceVars, path, seq_len, guide_len, cmp, dist_matrix, clusters,
                 already_compared, lock, i, j, compare_row, row, main_pc,
                 processed, claimed>>

\* row = dist_matrix[i]
ReadRowI(w) ==
  /\ pc[w] = "r1"
  /\ row' = [row EXCEPT ![w] = dist_matrix[i[w]]]
  /\ pc' = [pc EXCEPT ![w] = "w1"]
  /\ UNCHANGED <<ceVars, path, seq_len, guide_len, cmp, dist_matrix, clusters,
                 already_compared, lock, i, j, compare_row, val, main_pc,
                 files, processed, claimed>>

\* row[j] = value; dist_matrix[i] = row
WriteRowI(w) ==
  /\ pc[w] = "w1"
  /\ dist_matrix' = [dist_matrix EXCEPT
                       ![i[w]] = [row[w] EXCEPT ![j[w]] = val[w]]]
  /\ row' = [row EXCEPT ![w] = <<>>]
  /\ pc' = [pc EXCEPT ![w] = "r2"]
  /\ UNCHANGED <<ceVars, path, seq_len, guide_len, cmp, clusters,
                 already_compared, lock, i, j, compare_row, val, main_pc,
                 files, processed, claimed>>

\* row = dist_matrix[j]
ReadRowJ(w) ==
  /\ pc[w] = "r2"
  /\ row' = [row EXCEPT ![w] = dist_matrix[j[w]]]
  /\ pc' = [pc EXCEPT ![w] = "w2"]
  /\ UNCHANGED <<ceVars, path, seq_len, guide_len, cmp, dist_matrix, clusters,
                 already_compared, lock, i, j, compare_row, val, main_pc,
                 files, processed, claimed>>

\* row[i] = value; dist_matrix[j] = row; then j += 1
WriteRowJ(w) ==
  /\ pc[w] = "w2"
  /\ dist_matrix' = [dist_matrix EXCEPT
                       ![j[w]] = [row[w] EXCEPT ![i[w]] = val[w]]]
  /\ row' = [row EXCEPT ![w] = <<>>]
  /\ val' = [val EXCEPT ![w] = 0]
  /\ pc' = [pc EXCEPT ![w] = NextCellPc(w)]
  /\ j' = [j EXCEPT ![w] = NextCellJ(w)]
  /\ i' = [i EXCEPT ![w] = NextCellI(w)]
  /\ UNCHANGED <<ceVars, path, seq_len, guide_len, cmp, clusters,
                 already_compared, lock, compare_row, main_pc, files,
                 processed, claimed>>

\* ---- make_guided_clusters_worker: the loop over all_seq_keys for a guide

\* the next key of "for key in all_seq_keys", or the next guide
NextCandPc(w) == IF j[w] = NKeys THEN NextKeyPc(w) ELSE "cand"
NextCandJ(w) == IF j[w] = NKeys THEN 1 ELSE j[w] + 1
NextCandI(w) == IF j[w] = NKeys THEN NextKeyI(w) ELSE i[w]

\* record = gb[key]; the length test
GateCheck(w) ==
  /\ pc[w] = "cand"
  /\ IF GatePassesGuided(guide_len[i[w]], seq_len[j[w]])
       THEN /\ pc' = [pc EXCEPT ![w] = "gblast"]
            /\ files' = [files EXCEPT ![w] = @ \cup {"query"}]
            /\ UNCHANGED <<i, j>>
       ELSE /\ pc' = [pc EXCEPT ![w] = NextCandPc(w)]
            /\ j' = [j EXCEPT ![w] = NextCandJ(w)]
            /\ i' = [i EXCEPT ![w] = NextCandI(w)]
            /\ UNCHANGED files
  /\ UNCHANGED <<ceVars, path, seq_len, guide_len, cmp, dist_matrix, clusters,
                 already_compared, lock, compare_row, row, val, main_pc,
                 processed, claimed>>

\* blastn_cmd() returns; a record with a hit leads to the locked append
GuidedBlast(w) ==
  /\ pc[w] = "gblast"
  /\ files' = [files EXCEPT ![w] = @ \cup {"blast"}]
  /\ IF cmp[<<i[w], j[w]>>] # NoAlignment
       THEN /\ pc' = [pc EXCEPT ![w] = "glock"]
            /\ UNCHANGED <<i, j>>
       ELSE /\ pc' = [pc EXCEPT ![w] = NextCandPc(w)]
            /\ j' = [j EXCEPT ![w] = NextCandJ(w)]
            /\ i' = [i EXCEPT ![w] = NextCandI(w)]
  /\ UNCHANGED <<ceVars, path, seq_len, guide_len, cmp, dist_matrix, clusters,
                 already_compared, lock, compare_row, row, val, main_pc,
                 processed, claimed>>

\* with lock: (entry, around the append)
GuidedAcquire(w) ==
  /\ pc[w] = "glock"
  /\ CanAcquire(w)
  /\ lock' = w
  /\ pc' = [pc EXCEPT ![w] = "gread"]
  /\ UNCHANGED <<ceVars, path, seq_len, guide_len, cmp, dist_matrix, clusters,
                 already_compared, i, j, compare_row, row, val, main_pc,
                 files, processed, claimed>>

\* temp_cluster = clusters[guide_sequences.index(guide)]
GuidedRead(w) ==
  /\ pc[w] = "gread"
  /\ row' = [row EXCEPT ![w] = clusters[i[w]]]
  /\ pc' = [pc EXCEPT ![w] = "gwrite"]
  /\ UNCHANGED <<ceVars, path, seq_len, guide_len, cmp, dist_matrix, clusters,
                 already_compared, lock, i, j, compare_row, val, main_pc,
                 files, processed, claimed>>

\* A faulty append: the cluster is started anew with the key.
KeyAlone(w) == <<j[w]>>

\* temp_cluster.append(key)
KeyAppended(w) == Append(row[w], j[w])

\* temp_cluster.append(key); clusters[...] = temp_cluster
GuidedWrite(w) ==
  /\ pc[w] = "gwrite"
  /\ clusters' = [clusters EXCEPT ![i[w]] = KeyAppended(w)]
  /\ row' = [row EXCEPT ![w] = <<>>]
  /\ pc' = [pc EXCEPT ![w] = "grelease"]
  /\ UNCHANGED <<ceVars, path, seq_len, guide_len, cmp, dist_matrix,
                 already_compared, lock, i, j, compare_row, val, main_pc,
                 files, processed, claimed>>

\* with lock: (exit), then the next key
GuidedRelease(w) ==
  /\ pc[w] = "grelease"
  /\ lock' = LockAfterWith(w)
  /\ pc' = [pc EXCEPT ![w] = NextCandPc(w)]
  /\ j' = [j EXCEPT ![w] = NextCandJ(w)]
  /\ i' = [i EXCEPT ![w] = NextCandI(w)]
  /\ UNCHANGED <<ceVars, path, seq_len, guide_len, cmp, dist_matrix, clusters,
                 already_compared, compare_row, row, val, main_pc, files,
                 processed, claimed>>

\* The positions of a worker process that has ended: normally ("done"), by
\* the exception of the comparator ("failed") or by the OSError of a remove
\* ("oserror").
Terminated == {"done", "failed", "oserror"}

\* The worker's temporary files, in the order the clean-up removes them
CleanupOrder == <<"blast", "query", "subject">>

\* os.remove(...) three times in a row: the first missing file raises OSError
\* and the rest is left behind.
RECURSIVE RemoveUnguarded(_, _)
RemoveUnguarded(fs, n) ==
  IF n > Len(CleanupOrder) THEN [left |-> fs, raised |-> FALSE]
  ELSE IF CleanupOrder[n] \notin fs THEN [left |-> fs, raised |-> TRUE]
  ELSE RemoveUnguarded(fs \ {CleanupOrder[n]}, n + 1)

\* if os.path.isfile(f): os.remove(f), three times in a row
RemoveGuarded(fs) ==
  [left |-> fs \ {CleanupOrder[n] : n \in 1..Len(CleanupOrder)},
   raised |-> FALSE]

\* The clean-up of distance_matrix_worker / make_guided_clusters_worker
Removal(w) ==
  IF path = "allpairs" THEN RemoveUnguarded(files[w], 1)
  ELSE RemoveGuarded(files[w])

\* "done looping ..., now clean up", and the end of the process
Cleanup(w) ==
  /\ pc[w] = "cleanup"
  /\ files' = [files EXCEPT ![w] = Removal(w).left]
  /\ pc' = [pc EXCEPT ![w] = IF Removal(w).raised THEN "oserror" ELSE "done"]
  /\ UNCHANGED <<ceVars, path, seq_len, guide_len, cmp, dist_matrix, clusters,
                 already_compared, lock, i, j, compare_row, row, val,
                 main_pc, processed, claimed>>

\* stdout, stderr = blastn_cmd() raises (the comparator exits non-zero): the
\* exception is not caught, so it ends the worker process.
ComparatorFails(w) ==
  /\ pc[w] \in {"blast", "gblast"}
  /\ pc' = [pc EXCEPT ![w] = "failed"]
  /\ UNCHANGED <<ceVars, path, seq_len, guide_len, cmp, dist_matrix, clusters,
                 already_compared, lock, i, j, compare_row, row, val,
                 main_pc, files, processed, claimed>>

\* A faulty join: only the first process is waited for.
FirstJoined == pc[1] \in Terminated

\* for p in processes: p.join()
AllJoined == \A w \in Workers : pc[w] \in Terminated

\* for p in processes: p.join(); return dist_matrix  /  return clusters
JoinAndReturn ==
  /\ main_pc = "joining"
  /\ AllJoined
  /\ main_pc' = "returned"
  /\ UNCHANGED <<ceVars, path, seq_len, guide_len, cmp, dist_matrix, clusters,
                 already_compared, lock, pc, i, j, compare_row, row, val,
                 files, processed, claimed>>

\* ------------------------------------------------------- cluster engine
\* make_clusters / merge_closest_clusters.  The recursion of
\* merge_closest_clusters is a tail call: one round is a scan (ScanAndCheck)
\* followed, unless the engine returns, by a merge (Merge).
MaxClusters == 4

\* The distances an input matrix may hold off its diagonal (0.0, 1e-12,
\* 10.0) and the thresholds a run may be given (0.0, 1e-10, 10.0, 99.0).
DistValues == {0, 1, NO_HIT}
DefaultThreshold == 2
Thresholds == {0, DefaultThreshold, NO_HIT, UNCOMPARED}

\* The symmetric n x n matrices with a zero diagonal over DistValues.
UpperPairs(n) == {p \in (1..n) \X (1..n) : p[1] < p[2]}
SymmetricMatrices(n) ==
  {[a \in 1..n |-> [b \in 1..n |->
       IF a = b THEN 0 ELSE IF a < b THEN u[<<a, b>>] ELSE u[<<b, a>>]]] :
     u \in [UpperPairs(n) -> DistValues]}

\* The matrix of the five sequences A..E (keys 1..5): AB = 0.0, AC = 1e-12,
\* AD = 50.0, AE = 10.0, BC = 1e-8, every other pair 10.0.
ScenarioMatrix ==
  << <<0, 0, 1, 50, 10>>,
     <<0, 0, 3, 10, 10>>,
     <<1, 3, 0, 10, 10>>,
     <<50, 10, 10, 0, 10>>,
     <<10, 10, 10, 10, 0>> >>

\* make_clusters: one singleton cluster per key, then the first round
InitEngine(m, t) ==
  /\ distance_matrix = m
  /\ input_matrix = m
  /\ clusters = [k \in 1..Len(m) |-> <<k>>]
  /\ threshold = t
  /\ ce_pc = "scanning"
  /\ cluster1 = 1
  /\ cluster2 = 1
  /\ min_distance = UNCOMPARED
  /\ merge_log = <<>>

\* No builder is running.
WorkersIdle ==
  /\ path = "none"
  /\ seq_len = <<>>
  /\ guide_len = <<>>
  /\ cmp = <<>>
  /\ dist_matrix = <<>>
  /\ already_compared = <<>>
  /\ lock = NoOwner
  /\ pc = [w \in Workers |-> "done"]
  /\ i = [w \in Workers |-> 1]
  /\ j = [w \in Workers |-> 1]
  /\ compare_row = [w \in Workers |-> FALSE]
  /\ row = [w \in Workers |-> <<>>]
  /\ val = [w \in Workers |-> 0]
  /\ main_pc = "returned"
  /\ files = [w \in Workers |-> {}]
  /\ processed = [k \in 1..MaxUnits |-> {}]
  /\ claimed = {}

InitCE ==
  /\ WorkersIdle
  /\ \/ \E n \in 0..MaxClusters : \E m \in SymmetricMatrices(n) :
          \E t \in Thresholds : InitEngine(m, t)
     \/ InitEngine(ScenarioMatrix, DefaultThreshold)

\* A faulty comparison: turned round (the scan looks for the largest).
Farther(d, best) == d > best

\* if distance_matrix[x][y] < min_distance:
Closer(d, best) == d < best

\* The scan's locals.
ScanStart == [min_distance |-> UNCOMPARED, cluster1 |-> 1, cluster2 |-> 1]

\* while y < len(distance_matrix): ... y += 1   (with the break on 0)
RECURSIVE ScanInner(_, _, _, _)
ScanInner(m, x, y, st) ==
  IF y > Len(m) THEN st
  ELSE LET st1 == IF x # y /\ Closer(m[x][y], st.min_distance)
                    THEN [min_distance |-> m[x][y],
                          cluster1 |-> x, cluster2 |-> y]
                    ELSE st
       IN IF x # y /\ st1.min_distance = 0 THEN st1
          ELSE ScanInner(m, x, y + 1, st1)

\* while x < len(distance_matrix): y = x + 1 ... x += 1  (with the break on 0)
RECURSIVE ScanOuter(_, _, _)
ScanOuter(m, x, st) ==
  IF x > Len(m) THEN st
  ELSE LET st1 == ScanInner(m, x, x + 1, st)
       IN IF st1.min_distance = 0 THEN st1 ELSE ScanOuter(m, x + 1, st1)

\* A faulty test: the minimum is never found to be above the threshold.
NeverDone(d, t) == FALSE

\* if min_distance > threshold: return clusters
Done(d, t) == d > t

\* The scan and the termination test of one call of merge_closest_clusters.
ScanAndCheck ==
  /\ ce_pc = "scanning"
  /\ LET st == ScanOuter(distance_matrix, 1, ScanStart) IN
       /\ cluster1' = st.cluster1
       /\ cluster2' = st.cluster2
       /\ min_distance' = st.min_distance
       /\ ce_pc' = IF Done(st.min_distance, threshold)
                     THEN "terminated" ELSE "merging"
  /\ UNCHANGED <<workerVars, clusters, distance_matrix, threshold,
                 input_matrix, merge_log>>

\* A faulty deletion: the first element goes, whatever k is.
RemoveFirst(s, k) == [n \in 1..(Len(s) - 1) |-> s[n + 1]]

\* del s[k]
RemoveAt(s, k) ==
  [n \in 1..(Len(s) - 1) |-> IF n < k THEN s[n] ELSE s[n + 1]]

\* A faulty comparison: turned round (the larger distance is kept).
Grows(old, new) == old < new

\* if distance_matrix[cluster1][i] > distance_matrix[cluster2][i]:
Shrinks(old, new) == old > new

\* A faulty update: only row cluster1 is written, column cluster1 is not.
WriteColumnSkipped(m, k, c1, c2) == m

\* row = distance_matrix[i]; row[cluster1] = distance_matrix[cluster2][i];
\* distance_matrix[i] = row
WriteColumn(m, k, c1, c2) == [m EXCEPT ![k][c1] = m[c2][k]]

\* for i in range(len(distance_matrix[cluster1])): ...
RECURSIVE UpdateRow(_, _, _, _)
UpdateRow(m, c1, c2, k) ==
  IF k > Len(m[c1]) THEN m
  ELSE IF Shrinks(m[c1][k], m[c2][k])
    THEN UpdateRow(WriteColumn([m EXCEPT ![c1][k] = m[c2][k]], k, c1, c2),
                   c1, c2, k + 1)
    ELSE UpdateRow(m, c1, c2, k + 1)

\* A faulty deletion: row cluster2 goes, column cluster2 stays.
DeleteRowOnly(m, c2) == RemoveAt(m, c2)

\* A faulty deletion: the last row and column go instead of cluster2's.
DeleteLastCluster(m, c2) ==
  LET rows == RemoveAt(m, Len(m)) IN
    [a \in 1..Len(rows) |-> RemoveAt(rows[a], Len(m))]

\* del distance_matrix[cluster2]; del row[cluster2] for every row
DeleteCluster(m, c2) ==
  LET rows == RemoveAt(m, c2) IN
    [a \in 1..Len(rows) |-> RemoveAt(rows[a], c2)]

\* A faulty merge: the keys of cluster2 are put in front.
MergeClustersInFront(cl, c1, c2) ==
  RemoveAt([cl EXCEPT ![c1] = cl[c2] \o cl[c1]], c2)

\* for sequence in clusters[cluster2]: clusters[cluster1].append(sequence)
\* del clusters[cluster2]
MergeClusters(cl, c1, c2) ==
  RemoveAt([cl EXCEPT ![c1] = cl[c1] \o cl[c2]], c2)

\* for sequence in clusters[cluster2]: clusters[cluster1].append(sequence)
\* with cluster1 = cluster2: the first pass of a loop that appends to the
\* list it iterates, and so never ends.
SelfAppend(cl, c1) == [cl EXCEPT ![c1] = Append(cl[c1], cl[c1][1])]

\* The merge of one call of merge_closest_clusters and the recursive call.
\* With no cluster at all clusters[cluster2] raises IndexError; with
\* cluster1 = cluster2 the for loop appends to the list it iterates and never
\* ends.
Merge ==
  /\ ce_pc = "merging"
  /\ IF Len(clusters) = 0
       THEN /\ ce_pc' = "error"
            /\ UNCHANGED <<clusters, distance_matrix, merge_log>>
       ELSE IF cluster1 = cluster2
         THEN /\ ce_pc' = "diverged"
              /\ clusters' = SelfAppend(clusters, cluster1)
              /\ UNCHANGED <<distance_matrix, merge_log>>
         ELSE /\ clusters' = MergeClusters(clusters, cluster1, cluster2)
              /\ distance_matrix' =
                   DeleteCluster(
                     UpdateRow(distance_matrix, cluster1, cluster2, 1),
                     cluster2)
              /\ merge_log' = Append(merge_log,
                   [into |-> clusters[cluster1], from |-> clusters[cluster2],
                    distance |-> min_distance])
              /\ ce_pc' = "scanning"
  /\ UNCHANGED <<workerVars, threshold, cluster1, cluster2, min_distance,
                 input_matrix>>

NextCE == ScanAndCheck \/ Merge

SpecCE == InitCE /\ [][NextCE]_vars

\* The engine is a sequential function: a call that can take its next step
\* takes it.
SpecCELive == InitCE /\ [][NextCE]_vars /\ WF_vars(NextCE)

\* The matrix make_distance_matrix returns for two keys when the comparator
\* fails at the first comparison of either row: only cell (0,0) was written.
FailedBuildMatrix ==
  <<<<0, UNCOMPARED>>, <<UNCOMPARED, UNCOMPARED>>>>

\* main hands the matrix of a build with a failed worker to make_clusters.
InitCEAfterFailure ==
  /\ WorkersIdle
  /\ \E t \in Thresholds : InitEngine(FailedBuildMatrix, t)

\* The cluster engine on the matrices above and on the matrix of a failed
\* build.
SpecCEFail == (InitCE \/ InitCEAfterFailure) /\ [][NextCE]_vars

Next ==
  \/ Spawn
  \/ \E w \in Workers : Acquire(w)
  \/ \E w \in Workers : CheckClaimed(w)
  \/ \E w \in Workers : AppendClaim(w)
  \/ \E w \in Workers : Release(w)
  \/ \E w \in Workers : ReadCell(w)
  \/ \E w \in Workers : DiagRead(w)
  \/ \E w \in Workers : DiagWrite(w)
  \/ \E w \in Workers : Blast(w)
  \/ \E w \in Workers : ReadRowI(w)
  \/ \E w \in Workers : WriteRowI(w)
  \/ \E w \in Workers : ReadRowJ(w)
  \/ \E w \in Workers : WriteRowJ(w)
  \/ \E w \in Workers : GateCheck(w)
  \/ \E w \in Workers : GuidedBlast(w)
  \/ \E w \in Workers : GuidedAcquire(w)
  \/ \E w \in Workers : GuidedRead(w)
  \/ \E w \in Workers : GuidedWrite(w)
  \/ \E w \in Workers : GuidedRelease(w)
  \/ \E w \in Workers : Cleanup(w)
  \/ JoinAndReturn

Spec == Init /\ [][Next]_vars

\* Record lengths on the boundary of the tolerance for L = 1/2: 150 is
\* 100 * (1 + L) and 50 is 100 * (1 - L).
BoundaryLengths == {50, 100, 150}
BoundaryLists(n) == UNION {[1..m -> BoundaryLengths] : m \in 1..n}

\* Either builder up to the start of the workers, on records of these lengths
InitBoundary ==
  /\ EngineIdle
  /\ seq_len \in BoundaryLists(NumGuides)
  /\ cmp \in Comparators
  /\ InitWorkers(Len(seq_len))
  /\ \/ /\ path = "allpairs"
        /\ guide_len = <<>>
        /\ dist_matrix = InitialMatrix(Len(seq_len))
        /\ clusters = <<>>
     \/ /\ path = "guided"
        /\ guide_len \in BoundaryLists(NumGuides)
        /\ dist_matrix = <<>>
        /\ clusters = EmptyClusters(Len(guide_len))

\* The builders on records whose lengths are on the boundary of the gate.
SpecBoundary == InitBoundary /\ [][Next]_vars

\* The builders with a comparator that may fail at any invocation.
NextFail == Next \/ \E w \in Workers : ComparatorFails(w)

SpecFail == Init /\ [][NextFail]_vars

\* ------------------------------------------------- distance-matrix builder
Symmetric(m) == \A a, b \in 1..Len(m) : m[a][b] = m[b][a]
ZeroDiagonal(m) == \A a \in 1..Len(m) : m[a][a] = 0

Returned == main_pc = "returned"
AllPairsReturned == path = "allpairs" /\ Returned

\* The positions of distance_matrix_worker inside "if compare_row:".
RowPcs == {"cell", "diagR", "diagW", "blast", "r1", "w1", "r2", "w2"}
\* The positions of make_guided_clusters_worker inside "if compare_guide:".
GuidePcs == {"cand", "gblast", "glock", "gread", "gwrite", "grelease"}

\* C1: the matrix make_distance_matrix returns has a zero diagonal and is
\* symmetric, whatever the interleaving of the workers.
C1_ReturnedMatrixSymmetric ==
  AllPairsReturned => ZeroDiagonal(dist_matrix) /\ Symmetric(dist_matrix)

\* The matrix one worker alone builds: the two loops of
\* distance_matrix_worker run without interference from row a, column b on.
RECURSIVE SequentialBuild(_, _, _)
SequentialBuild(m, a, b) ==
  IF a > Len(m) THEN m
  ELSE IF b > Len(m) THEN SequentialBuild(m, a + 1, 1)
  ELSE IF m[a][b] # UNCOMPARED THEN SequentialBuild(m, a, b + 1)
  ELSE IF a = b THEN SequentialBuild([m EXCEPT ![a][b] = 0], a, b + 1)
  ELSE LET v == IF GateFailsDM(seq_len[a], seq_len[b])
                  THEN LENGTH_GATE_FAILED ELSE BlastValue(a, b)
       IN SequentialBuild([m EXCEPT ![a][b] = v, ![b][a] = v], a, b + 1)

\* C3: the returned matrix is determined by the keys, the lengths and the
\* comparator alone: every run returns the matrix of the run in which one
\* worker claims every row, so any two runs on the same inputs agree.
C3_ReturnedMatrixDeterministic ==
  AllPairsReturned =>
    dist_matrix = SequentialBuild(InitialMatrix(NKeys), 1, 1)

LengthGatePair(a, b) == a # b /\ {seq_len[a], seq_len[b]} = {100, 160}
\* C6: a pair of sequences of lengths 100 and 160 (L = 0.5) is never handed
\* to the comparator, in either order, and both its cells end as 50.0.
C6_LengthGateBothOrders ==
  path = "allpairs" =>
    \A a, b \in Keys : LengthGatePair(a, b) =>
      /\ \A w \in Workers : ~(pc[w] = "blast" /\ i[w] = a /\ j[w] = b)
      /\ Returned => dist_matrix[a][b] = LENGTH_GATE_FAILED
                     /\ dist_matrix[b][a] = LENGTH_GATE_FAILED

\* C7: each row is processed by at most one worker, and only by the worker
\* whose own check-and-insert into already_compared succeeded while it held
\* the lock.
C7_RowClaimedOnceUnderLock ==
  path = "allpairs" =>
    /\ \A c \in claimed : c[3]
    /\ \A r \in Keys :
         /\ Cardinality(processed[r]) <= 1
         /\ \A w \in processed[r] : <<r, w, TRUE>> \in claimed /\ InSeq(r, already_compared)
         /\ \A w \in Workers : (pc[w] \in RowPcs /\ i[w] = r) => w \in processed[r]
C7_TwoRowsInProgress ==
  /\ path = "allpairs"
  /\ pc[1] \in RowPcs /\ pc[2] \in RowPcs
  /\ i[1] # i[2]
  /\ processed[i[1]] = {1} /\ processed[i[2]] = {2}

\* A worker that has written cell (i,j) and not yet cell (j,i), and a step of
\* a worker that reads or writes dist_matrix.
MidPairWrite(w) == pc[w] \in {"r2", "w2"}
MatrixAccess(v) ==
  \/ ReadCell(v) \/ DiagRead(v) \/ DiagWrite(v)
  \/ ReadRowI(v) \/ WriteRowI(v) \/ ReadRowJ(v) \/ WriteRowJ(v)
\* C8: between a worker's write of (i,j) and its write of (j,i) no other
\* worker reads or writes the matrix.
C8_PairWriteAtomic ==
  [][\A w, v \in Workers :
       (w # v /\ MidPairWrite(w)) => ~MatrixAccess(v)]_vars

InComparator(w) == pc[w] \in {"blast", "gblast"}
\* C9: in both builders a worker inside the comparator call does not hold
\* the lock (so another worker can be inside the comparator too).
C9_NoLockAcrossComparator ==
  \A w \in Workers : InComparator(w) => lock # w
C9_TwoWorkersInComparator ==
  /\ path = "guided"
  /\ pc[1] = "gblast" /\ pc[2] = "gblast"
  /\ lock = NoOwner

\* C10: during the build a cell that holds a value other than UNCOMPARED
\* keeps that value.
C10_ComputedCellStable ==
  [][path = "allpairs" =>
       \A a, b \in Keys :
         dist_matrix[a][b] # UNCOMPARED =>
           dist_matrix'[a][b] = dist_matrix[a][b]]_vars
\* ----------------------------------------------------------- cluster engine
EngineRunning == ce_pc \in {"scanning", "merging", "terminated"}

\* C2: started from a symmetric matrix with a zero diagonal, the engine's
\* matrix is symmetric with a zero diagonal after every merge.
C2_EngineMatrixSymmetric ==
  ZeroDiagonal(distance_matrix) /\ Symmetric(distance_matrix)
C2_MergedRowShrank ==
  /\ ce_pc = "scanning"
  /\ Len(merge_log) = 1
  /\ \E k \in 1..Len(clusters) :
       /\ k # cluster1
       /\ distance_matrix[cluster1][k]
            < input_matrix[clusters[cluster1][1]][clusters[k][1]]

\* The smallest distance between two different clusters.
OffDiagonal(m) ==
  {m[p[1]][p[2]] : p \in {q \in (1..Len(m)) \X (1..Len(m)) : q[1] # q[2]}}
MinOffDiagonal(m) ==
  CHOOSE d \in OffDiagonal(m) : \A e \in OffDiagonal(m) : d <= e

\* C4: for every threshold T >= 0 the engine merges only while two or more
\* clusters remain and the smallest off-diagonal distance is <= T, and it
\* returns only when one cluster (or none) remains or that distance is > T.
C4_TerminatesExactly ==
  /\ ce_pc \in {"merging", "diverged", "error"} =>
       /\ Len(clusters) >= 2
       /\ MinOffDiagonal(distance_matrix) <= threshold
  /\ ce_pc = "terminated" =>
       \/ Len(clusters) <= 1
       \/ MinOffDiagonal(distance_matrix) > threshold

ScenarioRun == input_matrix = ScenarioMatrix /\ threshold = DefaultThreshold
ScenarioMerges ==
  << [into |-> <<1>>, from |-> <<2>>, distance |-> 0],
     [into |-> <<1, 2>>, from |-> <<3>>, distance |-> 1] >>
\* C5: on the five sequences A..E with T = 1e-10 the engine merges B into A
\* at distance 0, then C into {A,B} at distance 1e-12, then returns
\* [[A,B,C],[D],[E]].
C5_ScenarioClusters ==
  ScenarioRun =>
    /\ EngineRunning
    /\ Len(merge_log) <= Len(ScenarioMerges)
    /\ merge_log = SubSeq(ScenarioMerges, 1, Len(merge_log))
    /\ (ce_pc = "scanning" /\ Len(merge_log) = Len(ScenarioMerges)) =>
         clusters = << <<1, 2, 3>>, <<4>>, <<5>> >>
    /\ ce_pc = "terminated" =>
         /\ merge_log = ScenarioMerges
         /\ clusters = << <<1, 2, 3>>, <<4>>, <<5>> >>
C5_ScenarioReturned == ScenarioRun /\ ce_pc = "terminated"

\* Worker w has computed the value of the cell (a, b) of its row a and has
\* not yet finished writing it.
HasValueFor(w, a, b) ==
  /\ path = "allpairs"
  /\ pc[w] \in {"r1", "w1", "r2", "w2"}
  /\ i[w] = a
  /\ j[w] = b

\* C11: when the owner of row a and the owner of row b have both computed the
\* unordered pair {a, b} before either of them has written it, both are about
\* to write the same value, so that the overwrite is idempotent.
C11_OverwriteIdempotent ==
  \A w, v \in Workers : \A a, b \in Keys :
    ( /\ w # v
      /\ a # b
      /\ HasValueFor(w, a, b)
      /\ HasValueFor(v, b, a)
      /\ dist_matrix[a][b] = UNCOMPARED
      /\ dist_matrix[b][a] = UNCOMPARED )
    => val[w] = val[v]

GuidedReturned == path = "guided" /\ Returned
NGuides == Len(guide_len)

\* Guide g takes candidate k: their lengths pass the guided length gate and
\* the comparator, with the guide as subject, reports a hit.
GuideTakes(g, k) ==
  /\ 2 * guide_len[g] < 3 * seq_len[k]
  /\ 2 * guide_len[g] > seq_len[k]
  /\ cmp[<<g, k>>] # NoAlignment

\* The candidates among the first n that guide g takes, in list order.
RECURSIVE TakenUpTo(_, _)
TakenUpTo(g, n) ==
  IF n = 0 THEN <<>>
  ELSE IF GuideTakes(g, n) THEN Append(TakenUpTo(g, n - 1), n)
  ELSE TakenUpTo(g, n - 1)

C13_NoGuideNoWork ==
  (path = "guided" /\ NGuides = 0) =>
    /\ Len(clusters) = 0
    /\ \A w \in Workers : pc[w] \in {"unstarted", "cleanup", "done"}
C13_NoGuideReturned ==
  /\ GuidedReturned
  /\ NGuides = 0
  /\ NKeys >= 1
  /\ \A w \in Workers : pc[w] = "done"

\* The guide's length a is outside the tolerance around the candidate's
\* length b: a > b * (1 + L) or a < b * (1 - L), with L = 1/2.
OutsideTolerance(a, b) == (2 * a > 3 * b) \/ (2 * a < b)
OutsideEveryGuide(k) ==
  \A g \in 1..NGuides : OutsideTolerance(guide_len[g], seq_len[k])

ComparatorFailed == \E w \in Workers : pc[w] = "failed"

\* C15: when the comparator invocation of any worker fails, the build is
\* aborted: the builder does not return a matrix or a cluster list.
C15_FailureAbortsBuild == ComparatorFailed => ~Returned

\* C16: an empty key list (all-pairs builder) and an empty guide set (guided
\* builder) are detected before any worker is spawned: no worker process is
\* ever started.
C16_EmptyInputSpawnsNoWorker ==
  NUnits = 0 => \A w \in Workers : pc[w] = "unstarted"

\* C17: a builder starts every worker of its pool before it waits, and it has
\* returned only when every worker has terminated, so that no worker can
\* still write to the result that was handed on.
C17_ReturnsAfterWorkersEnd ==
  /\ main_pc # "spawning" => \A w \in Workers : pc[w] # "unstarted"
  /\ Returned => \A w \in Workers : pc[w] \in Terminated
C17_BothWorkersWorkedAndReturned ==
  /\ AllPairsReturned
  /\ \E a, b \in Keys : processed[a] = {1} /\ processed[b] = {2}
  /\ \A w \in Workers : pc[w] = "done"

Smaller(a, b) == IF a <= b THEN a ELSE b

\* C18: a merge of cluster y into cluster x (x < y) leaves, for every
\* remaining index k, the smaller of the old distances of x and of y to k in
\* row x and in column x, and removes row y and column y, so that either
\* dimension shrinks by exactly one.
C18_MergeKeepsSmaller ==
  [][ (ce_pc = "merging" /\ ce_pc' = "scanning") =>
        LET old == distance_matrix
            new == distance_matrix'
            x == cluster1
            y == cluster2
            Pos(k) == IF k < y THEN k ELSE k - 1
        IN /\ x < y
           /\ Len(new) = Len(old) - 1
           /\ \A a \in 1..Len(new) : Len(new[a]) = Len(old) - 1
           /\ \A k \in (1..Len(old)) \ {y} :
                /\ new[x][Pos(k)] = Smaller(old[x][k], old[y][k])
                /\ new[Pos(k)][x] = Smaller(old[x][k], old[y][k])
                /\ new[x][Pos(k)] <= old[x][k]
                /\ new[x][Pos(k)] <= old[y][k] ]_vars
C18_InnerClusterMerged ==
  /\ ce_pc = "scanning"
  /\ Len(merge_log) = 1
  /\ Len(distance_matrix) = Len(input_matrix) - 1
  /\ cluster2 <= Len(distance_matrix)
  /\ \E k \in (1..Len(input_matrix)) \ {cluster1, cluster2} :
       input_matrix[cluster2][k] < input_matrix[cluster1][k]

\* C19: in every terminal state of a worker none of its temporary files
\* remains, and the release of the files has not failed.
C19_TempFilesReleased ==
  \A w \in Workers :
    pc[w] \in Terminated => files[w] = {} /\ pc[w] # "oserror"

\* The first pair in row-major order (x ascending, then y ascending, x < y)
\* among the pairs whose distance is the smallest off-diagonal one.
FirstMinPair(m) ==
  CHOOSE p \in UpperPairs(Len(m)) :
    /\ m[p[1]][p[2]] = MinOffDiagonal(m)
    /\ \A q \in UpperPairs(Len(m)) :
         m[q[1]][q[2]] = MinOffDiagonal(m) =>
           \/ p[1] < q[1]
           \/ (p[1] = q[1] /\ p[2] <= q[2])

\* C20: the pair one scan selects is the first pair in row-major order among
\* the pairs that attain the smallest off-diagonal distance (with a distance
\* of 0 that is the first pair of distance 0, where the scan stops).
C20_ScanSelectsFirstMinimum ==
  (ce_pc \in {"merging", "terminated"} /\ Len(distance_matrix) >= 2) =>
    <<cluster1, cluster2>> = FirstMinPair(distance_matrix)

\* A step of the engine that is a merge (Merge with two different clusters).
MergeStep == ce_pc = "merging" /\ ce_pc' = "scanning"

\* C21: a merge of cluster y into cluster x (x < y) leaves cluster x equal to
\* its previous keys followed by y's previous keys in their previous order
\* and removes cluster y from the list: the cluster count drops by one.
C21_MergeAppendsAndRemoves ==
  [][ MergeStep =>
        LET x == cluster1
            y == cluster2
        IN /\ x < y
           /\ Len(clusters') = Len(clusters) - 1
           /\ clusters'[x] = clusters[x] \o clusters[y]
           /\ \A k \in y..Len(clusters') : clusters'[k] = clusters[k + 1] ]_vars
C21_TwoPairsMerged ==
  /\ ce_pc = "scanning"
  /\ Len(merge_log) >= 2
  /\ Len(merge_log[Len(merge_log)].into) >= 2
  /\ Len(merge_log[Len(merge_log)].from) >= 2

\* The keys of cluster p.
Members(p) == {clusters[p][n] : n \in 1..Len(clusters[p])}

\* C22: at every scanning state there are as many clusters as matrix rows,
\* every row has that length, and row p and column p hold distances of the
\* cluster at index p: cell (p, q) is the input distance between a key of
\* cluster p and a key of cluster q.
C22_ClusterRowCorrespondence ==
  ce_pc = "scanning" =>
    /\ Len(distance_matrix) = Len(clusters)
    /\ \A p \in 1..Len(distance_matrix) :
         Len(distance_matrix[p]) = Len(clusters)
    /\ \A p, q \in 1..Len(clusters) : p # q =>
         \E a \in Members(p) : \E b \in Members(q) :
           /\ distance_matrix[p][q] = input_matrix[a][b]
           /\ distance_matrix[q][p] = input_matrix[b][a]
C22_TwoMergesTwoRows ==
  /\ ce_pc = "scanning"
  /\ Len(merge_log) = 2
  /\ Len(clusters) = 2
  /\ Len(distance_matrix) = 2

\* The positions of the guided worker inside the locked append.
AppendPcs == {"gread", "gwrite", "grelease"}

\* C23: in the guided builder each guide is claimed by at most one worker, a
\* worker inside an append (read the cluster, append the key, write it back)
\* holds the lock, so no two workers are inside an append at the same time,
\* and a write to a cluster only adds one key at its end: no key is lost.
C23_GuidedAppendsLocked ==
  /\ [](path = "guided" =>
          /\ \A g \in Units : Cardinality(processed[g]) <= 1
          /\ \A w \in Workers : pc[w] \in AppendPcs => lock = w
          /\ \A w, v \in Workers :
               (pc[w] \in AppendPcs /\ pc[v] \in AppendPcs) => w = v)
  /\ [][path = "guided" =>
          \A g \in 1..Len(clusters) :
            \/ clusters'[g] = clusters[g]
            \/ \E k \in Keys : clusters'[g] = Append(clusters[g], k)]_vars
C23_AppendWhileOtherWaits ==
  /\ path = "guided"
  /\ pc[1] = "gwrite"
  /\ pc[2] = "glock"
  /\ lock = 1
  /\ i[1] # i[2]
  /\ clusters[i[2]] # <<>>

MemberDistances(p, q) ==
  {input_matrix[a][b] : a \in Members(p), b \in Members(q)}
Linkage(p, q) ==
  CHOOSE d \in MemberDistances(p, q) : \A e \in MemberDistances(p, q) : d <= e

\* C25: started from singleton clusters and a symmetric matrix D with a zero
\* diagonal, at every scanning state the cell (x, y) of two different
\* clusters is the minimum of D over the pairs of their members.
C25_SingleLinkageDistance ==
  ce_pc = "scanning" =>
    \A x, y \in 1..Len(clusters) : x # y =>
      distance_matrix[x][y] = Linkage(x, y)
C25_LinkageThroughLaterMember ==
  /\ ce_pc = "scanning"
  /\ Len(merge_log) >= 2
  /\ \E x, y \in 1..Len(clusters) :
       /\ x # y
       /\ Len(clusters[x]) >= 2
       /\ distance_matrix[x][y] < input_matrix[clusters[x][1]][clusters[y][1]]

\* The keys linked to a key of S by a chain of keys in which every
\* consecutive pair has an input distance of at most t.
RECURSIVE Linked(_, _)
Linked(S, t) ==
  LET step == S \cup {b \in 1..Len(input_matrix) :
                        \E a \in S : input_matrix[a][b] <= t}
  IN IF step = S THEN S ELSE Linked(step, t)

SameCluster(a, b) ==
  \E p \in 1..Len(clusters) : a \in Members(p) /\ b \in Members(p)

\* C26: for a threshold 0 <= T < 10 two keys are in the same returned cluster
\* exactly when a chain of keys with consecutive distances <= T links them.
C26_ClustersAreComponents ==
  (ce_pc = "terminated" /\ threshold >= 0 /\ threshold < NO_HIT) =>
    \A a, b \in 1..Len(input_matrix) :
      SameCluster(a, b) <=> b \in Linked({a}, threshold)
C26_ChainClustered ==
  /\ ce_pc = "terminated"
  /\ threshold < NO_HIT
  /\ Len(clusters) >= 2
  /\ \E a, b \in 1..Len(input_matrix) :
       /\ SameCluster(a, b)
       /\ input_matrix[a][b] > threshold

\* The places (cluster, position) at which key k occurs.
Places(k) ==
  {pn \in (1..Len(clusters)) \X (1..MaxClusters + 1) :
     pn[2] <= Len(clusters[pn[1]]) /\ clusters[pn[1]][pn[2]] = k}

\* C27: at every state of the engine the clusters are a partition of the
\* input keys: every key occurs in exactly one cluster and once in it, and
\* no cluster is empty.
C27_ClustersPartitionKeys ==
  ce_pc # "idle" =>
    /\ \A k \in 1..Len(input_matrix) : Cardinality(Places(k)) = 1
    /\ \A p \in 1..Len(clusters) : clusters[p] # <<>>

\* C28: a merge of cluster y into cluster x leaves every other cluster as it
\* was, in the same relative order, and every matrix cell (k, l) with k and
\* l both different from x and y.
C28_MergeFrame ==
  [][ MergeStep =>
        LET x == cluster1
            y == cluster2
            Pos(k) == IF k < y THEN k ELSE k - 1
            Others == (1..Len(clusters)) \ {x, y}
        IN /\ \A k \in Others : clusters'[Pos(k)] = clusters[k]
           /\ \A k, l \in Others :
                distance_matrix'[Pos(k)][Pos(l)] = distance_matrix[k][l] ]_vars
C28_MergedBetweenOthers ==
  /\ ce_pc = "scanning"
  /\ Len(merge_log) = 1
  /\ cluster1 >= 2
  /\ cluster2 <= Len(clusters)

\* C29: every merge the engine starts is a merge of two different existing
\* clusters x < y: the engine never merges a cluster with itself and never
\* indexes a cluster that does not exist.
C29_MergesTwoExistingClusters ==
  /\ ce_pc = "merging" =>
       /\ cluster1 < cluster2
       /\ cluster2 <= Len(clusters)
  /\ ce_pc \notin {"diverged", "error"}

NoCellUncompared(m) ==
  \A a, b \in 1..Len(m) : m[a][b] # UNCOMPARED

\* C30: when make_distance_matrix returns after a run in which no worker
\* failed (every worker ended normally, every comparison gave a hit or no
\* hit), no cell of the returned matrix still holds UNCOMPARED.
C30_NoCellLeftUncompared ==
  (AllPairsReturned /\ \A w \in Workers : pc[w] = "done") =>
    NoCellUncompared(dist_matrix)

\* Worker w, at the length gate of the guided builder, takes a step.
GuidedGateStep(w) ==
  /\ path = "guided"
  /\ pc[w] = "cand"
  /\ <<pc'[w], i'[w], j'[w]>> # <<pc[w], i[w], j[w]>>

\* C31: the guided builder applies the length gate of the all-pairs builder:
\* it lets a pair of lengths (guide, candidate) through to the comparator
\* exactly when the all-pairs builder would not write LENGTH_GATE_FAILED for
\* that pair, the boundary lengths included.
C31_SameGateInBothBuilders ==
  [][ \A w \in Workers : GuidedGateStep(w) =>
        ( pc'[w] = "gblast"
            <=> ~GateFailsDM(guide_len[i[w]], seq_len[j[w]]) ) ]_vars

====
